---- MODULE Spec2Model ----
(***************************************************************************)
(* FlowState time tracker: the timer/session state machine of App.tsx      *)
(* (src/unnamed/part_000) and the midnight splitter of utils.ts            *)
(* (src/unnamed/part_001).                                                 *)
(*                                                                         *)
(* Durations and timestamps are integer milliseconds.  The one place the   *)
(* code leaves the integers is `interval / flowDivisor` (a JavaScript      *)
(* floating point division): breakRemaining is therefore kept as an exact  *)
(* fraction num/den.                                                       *)
(***************************************************************************)
EXTENDS Integers, Sequences, FiniteSets, TLC

\* ------------------------------------------------------------------ bounds
\* longest intervals list a FLOW chain may build before toggling stops
MaxIntervals == 2
\* task-completion records one open chain may collect
MaxCompleted == 1
\* to-do entries per category
MaxTasks == 1
\* stored session records per category
MaxSessions == 3
\* largest break allowance extend-break may build, in minutes
MaxBreakMinutes == 6
\* iterations of the splitter's while loop that are followed
MaxSplitLoops == 4

\* ------------------------------------------------------- program constants
\* `null` of `number | null`
NULL == -1
MsPerDay == 86400000
FocusThresholdMs == 1000
DefaultFlowDivisor == 5
DefaultCountdownMinutes == 25
DefaultBreakMinutes == 5
DefaultIdleThresholdMinutes == 180

Categories == {"default-1", "default-2"}
\* Object.keys(categoryData) enumerates in insertion order
CategoryOrder == <<"default-1", "default-2">>

\* The first reading of the clock is one second before a local midnight, so
\* that chains of the model can cross it.
T0 == MsPerDay - 1000

\* A behaviour follows one scenario: the instants at which the clock is read
\* (offsets from T0, in ms) and what the user makes use of -- the categories
\* selected, the values typed into the minutes input, into the divisor
\* setting and into the idle threshold setting, the to-do list, the
\* confirmation step; whether categories are deleted and whether the notes
\* of stored sessions are edited.
Scenario(offsets, cats, minutes, divisors, thresholds, todo, confirm) ==
  [ timeline |-> { T0 + d : d \in offsets }, categories |-> cats,
    minutes |-> minutes, divisors |-> divisors, thresholds |-> thresholds,
    todo |-> todo, confirm |-> confirm, delete |-> FALSE, notes |-> FALSE ]

\* the confirmation step is used, and categories are deleted
DeletingScenario(offsets, cats) ==
  [ Scenario(offsets, cats, {}, {}, {}, FALSE, TRUE) EXCEPT !.delete = TRUE ]

\* the confirmation step is used, and the notes of stored sessions are edited
NotingScenario(offsets, cats) ==
  [ Scenario(offsets, cats, {}, {}, {}, FALSE, TRUE) EXCEPT !.notes = TRUE ]

Scenarios ==
  { Scenario({ 0, 500, 1000 }, { "default-1" }, {}, {}, {}, FALSE, FALSE),
    Scenario({ 0, 10000, 30000 }, { "default-1" }, {}, {}, {}, FALSE, FALSE),
    Scenario({ 0, 5000, 65000 }, { "default-1" }, { 1 }, {}, {}, FALSE, FALSE),
    Scenario({ 0, 5000 }, { "default-1" }, {}, { 3 }, {}, FALSE, TRUE),
    Scenario({ 0, 5000 }, { "default-1" }, {}, {}, {}, TRUE, FALSE),
    Scenario({ 0 }, { "default-1", "default-2" }, {}, {}, {}, FALSE, FALSE),
    Scenario({ 0, 50000 }, { "default-1" }, {}, {}, { 1 }, FALSE, TRUE),
    Scenario({ 0, 60000 }, { "default-1" }, {}, {}, { 1 }, FALSE, TRUE),
    Scenario({ 0, 70000 }, { "default-1" }, {}, {}, { 1 }, FALSE, TRUE),
    Scenario({ 0, 2000, 4000 }, { "default-1" }, {}, {}, {}, FALSE, TRUE),
    Scenario({ 0, 5000 }, { "default-1" }, { 0 }, {}, {}, FALSE, FALSE),
    DeletingScenario({ 0, 5000 }, { "default-1" }),
    NotingScenario({ 0, 5000 }, { "default-1" }) }

\* --------------------------------------------------------- JS value helpers
\* x is falsy: null or 0
Falsy(x) == x = NULL \/ x = 0
\* x || y
OrElse(x, y) == IF Falsy(x) THEN y ELSE x

RECURSIVE SumSeq(_)
\* intervals.reduce((a, b) => a + b, 0)
SumSeq(s) == IF s = <<>> THEN 0 ELSE s[1] + SumSeq(Tail(s))

Max(a, b) == IF a >= b THEN a ELSE b

\* exact fractions for breakRemaining; num = NULL stands for null
Frac(n, d) == [num |-> n, den |-> d]
NoBreak == Frac(NULL, 1)
BreakIsNull(b) == b.num = NULL
BreakIsFalsy(b) == b.num = NULL \/ b.num = 0
\* b - ms <= 0, for a non-null b with a positive denominator
BreakRunOut(b, ms) == b.num - ms * b.den <= 0
\* (b || 0) + ms
BreakPlus(b, ms) ==
  IF BreakIsFalsy(b) THEN Frac(ms, 1) ELSE Frac(b.num + ms * b.den, b.den)
\* b = n / d as numbers
BreakEquals(b, n, d) == ~BreakIsNull(b) /\ b.num * d = n * b.den
BreakIsInteger(b) == ~BreakIsNull(b) /\ b.num % b.den = 0

\* ------------------------------------------------------------- TimerState
DefaultTimerState ==
  [ mode |-> "FLOW", status |-> "IDLE", startTime |-> NULL,
    sessionStartTime |-> NULL, accumulatedTime |-> 0, targetTime |-> NULL,
    breakRemaining |-> NoBreak, intervals |-> <<>>, completedTasks |-> <<>> ]

\* the state End-Session and reset write over `base`
ClearedTimerState(base) ==
  [ base EXCEPT !.status = "IDLE", !.startTime = NULL,
                !.sessionStartTime = NULL, !.accumulatedTime = 0,
                !.targetTime = NULL, !.breakRemaining = NoBreak,
                !.intervals = <<>>, !.completedTasks = <<>> ]

\* flowWorkToBreak with the break as long as divisor times the work
flowWorkToBreak_multiplied(ts, t, flowDivisor) ==
  LET interval == t - OrElse(ts.startTime, t) IN
  [ ts EXCEPT !.status = "BREAK", !.startTime = t,
              !.accumulatedTime = 0,
              !.intervals = Append(@, interval),
              !.breakRemaining = Frac(interval * flowDivisor, 1) ]

\* ---------------------------------------------------------- Timer Engine
\* toggleTimer, RUNNING in FLOW mode: the work interval ends, a break begins
flowWorkToBreak(ts, t, flowDivisor) ==
  LET interval == t - OrElse(ts.startTime, t) IN
  [ ts EXCEPT !.status = "BREAK", !.startTime = t,
              !.accumulatedTime = 0,
              !.intervals = Append(@, interval),
              !.breakRemaining = Frac(interval, flowDivisor) ]

\* countdownPause that measures the interval from now back to the start
countdownPause_backwards(ts, t) ==
  LET interval == OrElse(ts.startTime, t) - t IN
  [ ts EXCEPT !.status = "PAUSED", !.startTime = NULL,
              !.accumulatedTime = @ + interval ]

\* toggleTimer, RUNNING in COUNTDOWN mode: pause
countdownPause(ts, t) ==
  LET interval == t - OrElse(ts.startTime, t) IN
  [ ts EXCEPT !.status = "PAUSED", !.startTime = NULL,
              !.accumulatedTime = @ + interval ]

\* resumeFromBreak that leaves the break allowance in place
resumeFromBreak_keepsBreak(ts, t) ==
  [ ts EXCEPT !.status = "RUNNING", !.startTime = t, !.accumulatedTime = 0 ]

\* toggleTimer, BREAK: back to work
resumeFromBreak(ts, t) ==
  [ ts EXCEPT !.status = "RUNNING", !.startTime = t,
              !.accumulatedTime = 0, !.breakRemaining = NoBreak ]

\* startRunning that stamps sessionStartTime at every start
startRunning_restampsOrigin(ts, t, countdownMinutes) ==
  [ ts EXCEPT !.status = "RUNNING", !.startTime = t,
              !.sessionStartTime = t,
              !.accumulatedTime = IF ts.mode = "FLOW" THEN 0 ELSE @,
              !.targetTime = IF ts.mode = "COUNTDOWN"
                             THEN OrElse(@, countdownMinutes * 60 * 1000)
                             ELSE NULL ]

\* startRunning that starts every run from an empty accumulator
startRunning_dropsBanked(ts, t, countdownMinutes) ==
  [ ts EXCEPT !.status = "RUNNING", !.startTime = t,
              !.sessionStartTime = OrElse(@, t),
              !.accumulatedTime = 0,
              !.targetTime = IF ts.mode = "COUNTDOWN"
                             THEN OrElse(@, countdownMinutes * 60 * 1000)
                             ELSE NULL ]

\* toggleTimer, any other status (IDLE, PAUSED): start
startRunning(ts, t, countdownMinutes) ==
  [ ts EXCEPT !.status = "RUNNING", !.startTime = t,
              !.sessionStartTime = OrElse(@, t),
              !.accumulatedTime = IF ts.mode = "FLOW" THEN 0 ELSE @,
              !.targetTime = IF ts.mode = "COUNTDOWN"
                             THEN OrElse(@, countdownMinutes * 60 * 1000)
                             ELSE NULL ]

\* toggleTimer's updater: the next TimerState of the selected category
toggleTimerState(ts, t, flowDivisor, countdownMinutes) ==
  IF ts.status = "RUNNING" THEN
    IF ts.mode = "FLOW" THEN flowWorkToBreak(ts, t, flowDivisor)
    ELSE countdownPause(ts, t)
  ELSE IF ts.status = "BREAK" THEN resumeFromBreak(ts, t)
  ELSE startRunning(ts, t, countdownMinutes)

\* resetTimerState that leaves the finished segments in place
resetTimerState_keepsIntervals(ts) ==
  [ ClearedTimerState(ts) EXCEPT !.intervals = ts.intervals ]

\* resetTimer's updater
resetTimerState(ts) == ClearedTimerState(ts)

\* skipBreakState that leaves startTime in place
skipBreakState_keepsStart(ts) ==
  [ ts EXCEPT !.status = "IDLE", !.breakRemaining = NoBreak ]

\* skipBreak's updater
skipBreakState(ts) ==
  [ ts EXCEPT !.status = "IDLE", !.startTime = NULL, !.breakRemaining = NoBreak ]

\* extendBreakState that sets the break to ms instead of adding ms
extendBreakState_replaces(ts, ms) ==
  [ ts EXCEPT !.breakRemaining = Frac(ms, 1) ]

\* extendBreak's updater
extendBreakState(ts, ms) ==
  [ ts EXCEPT !.breakRemaining = BreakPlus(@, ms) ]

\* the mode buttons' updater
setModeState(ts, mode) == [ ts EXCEPT !.mode = mode ]

\* handleBreakEndState that ends the chain's bookkeeping with the break
handleBreakEndState_dropsOrigin(ts) ==
  [ ts EXCEPT !.status = "IDLE", !.startTime = NULL, !.breakRemaining = NoBreak,
              !.sessionStartTime = NULL ]

\* handleBreakEndForCategory's updater
handleBreakEndState(ts) ==
  [ ts EXCEPT !.status = "IDLE", !.startTime = NULL, !.breakRemaining = NoBreak ]

\* tick: the countdown of this TimerState has reached its target at t
tickCompletes(ts, t) ==
  /\ ts.status = "RUNNING"
  /\ ts.mode = "COUNTDOWN"
  /\ ~Falsy(ts.targetTime)
  /\ ts.accumulatedTime + (t - OrElse(ts.startTime, t)) >= ts.targetTime

\* tick: the break of this TimerState has run out at t
tickBreakEnds(ts, t) ==
  /\ ts.status = "BREAK"
  /\ ~BreakIsNull(ts.breakRemaining)
  /\ BreakRunOut(ts.breakRemaining, t - OrElse(ts.startTime, t))

\* getElapsed that shows only the running segment, without the banked time
getElapsed_dropsBanked(ts, t) ==
  IF ts.status = "RUNNING" /\ ~Falsy(ts.startTime)
  THEN Frac(Max(0, t - ts.startTime), 1)
  ELSE IF ts.status = "BREAK" /\ ~Falsy(ts.startTime)
  THEN LET b == IF BreakIsFalsy(ts.breakRemaining) THEN Frac(0, 1)
                ELSE ts.breakRemaining
           left == Frac(b.num - Max(0, t - ts.startTime) * b.den, b.den)
       IN IF left.num <= 0 THEN Frac(0, 1) ELSE left
  ELSE Frac(ts.accumulatedTime, 1)

\* getElapsed, with currentTime = t
getElapsed(ts, t) ==
  IF ts.status = "RUNNING" /\ ~Falsy(ts.startTime)
  THEN Frac(ts.accumulatedTime + Max(0, t - ts.startTime), 1)
  ELSE IF ts.status = "BREAK" /\ ~Falsy(ts.startTime)
  THEN LET b == IF BreakIsFalsy(ts.breakRemaining) THEN Frac(0, 1)
                ELSE ts.breakRemaining
           left == Frac(b.num - Max(0, t - ts.startTime) * b.den, b.den)
       IN IF left.num <= 0 THEN Frac(0, 1) ELSE left
  ELSE Frac(ts.accumulatedTime, 1)

\* ------------------------------------------------------ Session Assembler
NoCandidate == [ catId |-> "none" ]

workInCurrentInterval(ts, t) ==
  IF ts.status = "RUNNING" THEN t - OrElse(ts.startTime, t) ELSE 0

totalFocused(ts, t) ==
  SumSeq(ts.intervals) + workInCurrentInterval(ts, t) + ts.accumulatedTime

\* segmentCount that counts a current segment whether or not there is one
segmentCount_plusOne(ts, t) == Len(ts.intervals) + 1

segmentCount(ts, t) ==
  Len(ts.intervals)
    + (IF workInCurrentInterval(ts, t) + ts.accumulatedTime > 0 THEN 1 ELSE 0)

\* finalSessionStartTime that prefers the start of the current segment
finalSessionStartTime_segmentStart(ts, t) ==
  OrElse(ts.startTime, OrElse(ts.sessionStartTime, t))

finalSessionStartTime(ts, t) ==
  OrElse(ts.sessionStartTime, OrElse(ts.startTime, t))

\* sessionCandidate with the threshold compared by >=
sessionCandidate_atThreshold(ts, t, catId) ==
  IF totalFocused(ts, t) >= FocusThresholdMs
  THEN [ catId |-> catId,
         start |-> finalSessionStartTime(ts, t),
         end |-> t,
         duration |-> totalFocused(ts, t),
         totalElapsed |-> t - finalSessionStartTime(ts, t),
         sessionStartTime |-> finalSessionStartTime(ts, t),
         mode |-> ts.mode,
         segmentCount |-> Max(1, segmentCount(ts, t)) ]
  ELSE NoCandidate

\* the value End-Session hands to setPendingSession, or NoCandidate when it
\* makes no call
sessionCandidate(ts, t, catId) ==
  IF totalFocused(ts, t) > FocusThresholdMs
  THEN [ catId |-> catId,
         start |-> finalSessionStartTime(ts, t),
         end |-> t,
         duration |-> totalFocused(ts, t),
         totalElapsed |-> t - finalSessionStartTime(ts, t),
         sessionStartTime |-> finalSessionStartTime(ts, t),
         mode |-> ts.mode,
         segmentCount |-> Max(1, segmentCount(ts, t)) ]
  ELSE NoCandidate

\* endSessionState that leaves the finished segments in place
endSessionState_keepsIntervals(ts) ==
  [ ClearedTimerState(ts) EXCEPT !.intervals = ts.intervals ]

\* endSessionState that leaves the completed tasks in place
endSessionState_keepsTasks(ts) ==
  [ ClearedTimerState(ts) EXCEPT !.completedTasks = ts.completedTasks ]

\* the TimerState End-Session writes (handleEndSession and
\* handleEndSessionForCategory write the same fields)
endSessionState(ts) == ClearedTimerState(ts)

\* -------------------------------------------------- local calendar days
\* Local day d begins at DayStartAt(d).  The zone of the model observes
\* daylight saving: ZoneDayHours lists the length of local days 0, 1, ...
\* (one day of 25 hours when the clocks go back, one of 23 when they go
\* forward).
ZoneDayHours == <<24, 24, 24, 25, 24, 23, 24, 24>>
LastDay == Len(ZoneDayHours) - 2

DayLength(d) == ZoneDayHours[d + 1] * 60 * 60 * 1000

RECURSIVE DayStartAt(_)
DayStartAt(d) == IF d = 0 THEN 0 ELSE DayStartAt(d - 1) + DayLength(d - 1)

\* the local day a timestamp falls on
dayOf(t) == CHOOSE d \in 0..LastDay : DayStartAt(d) <= t /\ t < DayStartAt(d + 1)

\* date-fns isSameDay, startOfDay, endOfDay (23:59:59.999 local)
isSameDay(a, b) == dayOf(a) = dayOf(b)
startOfDay(t) == DayStartAt(dayOf(t))
endOfDay(t) == DayStartAt(dayOf(t) + 1) - 1

\* ------------------------------------------------------ Midnight Splitter
\* splitPart that does not copy the notes
splitPart_dropsNotes(session, id, from, to) ==
  [ session EXCEPT !.id = id, !.startTime = from, !.endTime = to,
                   !.duration = to - from, !.notes = "" ]

\* one part of a split: {...session, id, startTime, endTime, duration}
splitPart(session, id, from, to) ==
  [ session EXCEPT !.id = id, !.startTime = from, !.endTime = to,
                   !.duration = to - from ]

\* the while loop and the final push; ids are generateId()'s fresh values,
\* numbered from id.  `done` is FALSE when the loop is still running after
\* MaxSplitLoops iterations.
RECURSIVE splitLoop(_, _, _, _, _)
splitLoop(session, currentStart, sessions, id, fuel) ==
  IF ~isSameDay(currentStart, session.endTime) THEN
    IF fuel = 0 THEN [ parts |-> sessions, done |-> FALSE ]
    ELSE splitLoop(session,
                   startOfDay(currentStart + 86400000),
                   Append(sessions,
                          splitPart(session, id, currentStart, endOfDay(currentStart))),
                   id + 1, fuel - 1)
  ELSE [ parts |-> Append(sessions,
                          splitPart(session, id, currentStart, session.endTime)),
         done |-> TRUE ]

\* splitSessionByMidnight without the early return for a same-day record
splitSessionByMidnight_noEarlyReturn(session, id) ==
  splitLoop(session, session.startTime, <<>>, id, MaxSplitLoops)

splitSessionByMidnight(session, id) ==
  IF isSameDay(session.startTime, session.endTime)
  THEN [ parts |-> <<session>>, done |-> TRUE ]
  ELSE splitLoop(session, session.startTime, <<>>, id, MaxSplitLoops)

\* -------------------------------------------------------- stored sessions
NoPending == NoCandidate

\* what the confirmation step returns: skipped, or filled in
SkippedMeta ==
  [ rating |-> 0, tags |-> <<>>, distractions |-> <<>>, distractionNote |-> "" ]
FilledMeta ==
  [ rating |-> 4, tags |-> <<"Deep Work">>, distractions |-> <<"Phone">>,
    distractionNote |-> "noise" ]
MetaChoices == { SkippedMeta, FilledMeta }

\* newSessionBase that flags a session from the threshold on
newSessionBase_flagsAtThreshold(p, id, notes, completed, idleThresholdMinutes, meta) ==
  [ id |-> id, categoryId |-> p.catId, startTime |-> p.start, endTime |-> p.end,
    duration |-> p.duration, totalElapsed |-> p.totalElapsed,
    sessionStartTime |-> p.sessionStartTime, notes |-> notes, mode |-> p.mode,
    isFlagged |-> p.duration >= idleThresholdMinutes * 60 * 1000,
    completedTasks |-> completed,
    rating |-> meta.rating, tags |-> meta.tags,
    distractions |-> meta.distractions,
    distractionNote |-> meta.distractionNote ]

\* newSessionBase of handleSaveSessionData
newSessionBase(p, id, notes, completed, idleThresholdMinutes, meta) ==
  [ id |-> id, categoryId |-> p.catId, startTime |-> p.start, endTime |-> p.end,
    duration |-> p.duration, totalElapsed |-> p.totalElapsed,
    sessionStartTime |-> p.sessionStartTime, notes |-> notes, mode |-> p.mode,
    isFlagged |-> p.duration > idleThresholdMinutes * 60 * 1000,
    completedTasks |-> completed,
    rating |-> meta.rating, tags |-> meta.tags,
    distractions |-> meta.distractions,
    distractionNote |-> meta.distractionNote ]

\* ------------------------------------------------------------------ state
VARIABLES
  scenario,            \* the scenario this behaviour follows
  now,                 \* the reading Date.now() gives
  selectedCategoryId,  \* appState.selectedCategoryId
  timers,              \* appState.categoryData[c].timerState
  tasks,               \* appState.categoryData[c].tasks
  sessions,            \* appState.categoryData[c].sessions
  settings,            \* appState.settings
  countdownMinutes,    \* the countdownMinutes state of App
  pendingSession,      \* the pendingSession state of App
  nextId,              \* the ids generateId() has handed out
  categories,          \* appState.categories: the ids, in list order
  currentTime,         \* the currentTime state of App
  failed,              \* the handler whose state update threw, or "none"
  rendered,            \* appState.categoryData[c].timerState as the closure of
                       \* the installed interval callback holds it
  pendingCompleted,    \* history: the completedTasks the chain of the pending
                       \* candidate had when it ended (kept where the
                       \* confirmation step is used)
  last,                \* history: the operation that led here, the timers
                       \* before it and the candidates it handed over
  splitIn,             \* the record given to the splitter on its own
  splitOut             \* what the splitter returned for splitIn

vars == << scenario, now, selectedCategoryId, timers, tasks, sessions, settings,
           countdownMinutes, pendingSession, nextId, categories, currentTime,
           failed, rendered, pendingCompleted, last, splitIn, splitOut >>

appVars == << scenario, now, selectedCategoryId, timers, tasks, sessions, settings,
              countdownMinutes, pendingSession, nextId, categories, currentTime,
              failed, rendered, pendingCompleted, last >>

splitVars == << splitIn, splitOut >>

NoCands == [ c \in Categories |-> NoCandidate ]

\* ended: the categories End-Session ran for
Happened(op, cat, ended, cands) ==
  [ op |-> op, cat |-> cat, pre |-> timers, ended |-> ended, cand |-> cands ]

NotSplit == [ parts |-> <<>>, done |-> FALSE ]

\* categoryData has an entry for c (entries are added and deleted together
\* with the list entry)
HasData(c) == \E i \in 1..Len(categories) : categories[i] = c

\* A state updater reads `.timerState` or `.tasks` of the missing
\* categoryData[selectedId]: it throws a TypeError while React applies it, and
\* the tree is unmounted.
Throws(op) ==
  /\ failed = "none"
  /\ failed' = op
  /\ last' = Happened("TypeError", selectedCategoryId, {}, NoCands)
  /\ UNCHANGED << splitIn, splitOut, pendingCompleted, scenario, rendered, categories, currentTime, now,
                  selectedCategoryId, timers, tasks, sessions, settings,
                  countdownMinutes, pendingSession, nextId >>

\* a stored-session shaped record from start to end
PlainSession(id, from, to) ==
  newSessionBase([ catId |-> "default-1", start |-> from, end |-> to,
                   duration |-> to - from, totalElapsed |-> to - from,
                   sessionStartTime |-> from, mode |-> "FLOW" ],
                 id, "", <<>>, DefaultIdleThresholdMinutes, SkippedMeta)

AppInit ==
  /\ now = T0
  /\ selectedCategoryId = "default-1"
  /\ timers = [ c \in Categories |-> DefaultTimerState ]
  /\ tasks = [ c \in Categories |-> <<>> ]
  /\ sessions = [ c \in Categories |-> <<>> ]
  /\ settings = [ flowDivisor |-> DefaultFlowDivisor,
                  idleThresholdMinutes |-> DefaultIdleThresholdMinutes ]
  /\ countdownMinutes = DefaultCountdownMinutes
  /\ pendingSession = NoPending
  /\ nextId = 0
  /\ categories = CategoryOrder
  /\ currentTime = T0
  /\ failed = "none"
  /\ rendered = [ c \in Categories |-> DefaultTimerState ]
  /\ pendingCompleted = <<>>
  /\ last = [ op |-> "init", cat |-> "none",
              pre |-> [ c \in Categories |-> DefaultTimerState ],
              ended |-> {}, cand |-> NoCands ]

Init ==
  /\ scenario \in Scenarios
  /\ AppInit
  /\ splitIn = PlainSession(0, T0, T0)
  /\ splitOut = NotSplit

\* ---------------------------------------------------------------- actions
\* time passes: the next reading of the clock is a later instant
Advance ==
  /\ \E t \in scenario.timeline : t > now /\ now' = t
  /\ failed = "none"
  /\ last' = Happened("advance", "none", {}, NoCands)
  /\ UNCHANGED << splitIn, splitOut, pendingCompleted, scenario, rendered, categories, failed, currentTime, selectedCategoryId, timers, tasks, sessions,
                  settings, countdownMinutes, pendingSession, nextId >>

toggleTimer ==
  LET c == selectedCategoryId
      ts == timers[c] IN
  IF ~HasData(c) THEN Throws("toggleTimer")
  ELSE
  /\ currentTime' = now
  /\ ~(ts.status = "RUNNING" /\ ts.mode = "FLOW" /\ Len(ts.intervals) >= MaxIntervals)
  /\ timers' = [ timers EXCEPT
                   ![c] = toggleTimerState(ts, now, settings.flowDivisor,
                                           countdownMinutes) ]
  /\ failed = "none"
  /\ last' = Happened("toggleTimer", c, {}, NoCands)
  /\ UNCHANGED << splitIn, splitOut, pendingCompleted, scenario, rendered, categories, failed, now, selectedCategoryId, tasks, sessions, settings,
                  countdownMinutes, pendingSession, nextId >>

\* the End Session button is rendered only while a chain is open
endSessionShown(ts) ==
  ts.status # "IDLE" \/ ts.accumulatedTime > 0 \/ Len(ts.intervals) > 0

\* handleEndSession that stores the candidate at once, unrated
handleEndSession_storesAtOnce ==
  LET c == selectedCategoryId
      ts == timers[c]
      cand == sessionCandidate(ts, now, c) IN
  /\ HasData(c) /\ endSessionShown(ts)
  /\ Len(sessions[c]) < MaxSessions
  /\ pendingSession' = pendingSession
  /\ sessions' = [ sessions EXCEPT ![c] =
                     IF cand = NoCandidate THEN @
                     ELSE << newSessionBase(cand, nextId + 1, "", ts.completedTasks,
                                            settings.idleThresholdMinutes,
                                            SkippedMeta) >> \o @ ]
  /\ nextId' = nextId + 1
  /\ timers' = [ timers EXCEPT ![c] = endSessionState(ts) ]
  /\ failed = "none"
  /\ last' = Happened("handleEndSession", c, { c }, [ NoCands EXCEPT ![c] = cand ])
  /\ UNCHANGED << splitIn, splitOut, pendingCompleted, scenario, rendered, categories, failed, currentTime, now, selectedCategoryId, tasks, settings,
                  countdownMinutes >>

handleEndSession ==
  LET c == selectedCategoryId
      ts == timers[c]
      cand == sessionCandidate(ts, now, c) IN
  /\ HasData(c) /\ endSessionShown(ts)
  /\ pendingSession' = IF cand = NoCandidate THEN pendingSession ELSE cand
  /\ pendingCompleted' = IF cand = NoCandidate \/ ~scenario.confirm
                         THEN pendingCompleted
                         ELSE ts.completedTasks
  /\ timers' = [ timers EXCEPT ![c] = endSessionState(ts) ]
  /\ failed = "none"
  /\ last' = Happened("handleEndSession", c, { c }, [ NoCands EXCEPT ![c] = cand ])
  /\ UNCHANGED << splitIn, splitOut, scenario, rendered, categories, failed, currentTime, now, selectedCategoryId, tasks, sessions, settings,
                  countdownMinutes, nextId >>

\* resetTimer that resets the timers of all categories
resetTimer_allCategories ==
  LET c == selectedCategoryId IN
  IF ~HasData(c) THEN Throws("resetTimer")
  ELSE
  /\ timers' = [ d \in Categories |-> resetTimerState(timers[d]) ]
  /\ failed = "none"
  /\ last' = Happened("resetTimer", c, {}, NoCands)
  /\ UNCHANGED << splitIn, splitOut, pendingCompleted, scenario, rendered, categories, failed, currentTime, now,
                  selectedCategoryId, tasks, sessions, settings,
                  countdownMinutes, pendingSession, nextId >>

resetTimer ==
  LET c == selectedCategoryId IN
  IF ~HasData(c) THEN Throws("resetTimer")
  ELSE
  /\ timers' = [ timers EXCEPT ![c] = resetTimerState(@) ]
  /\ failed = "none"
  /\ last' = Happened("resetTimer", c, {}, NoCands)
  /\ UNCHANGED << splitIn, splitOut, pendingCompleted, scenario, rendered, categories, failed, currentTime, now, selectedCategoryId, tasks, sessions, settings,
                  countdownMinutes, pendingSession, nextId >>

\* Skip and +N Min are rendered only during a break of activeTimer, which is
\* the default IDLE state when the selected id has no categoryData entry
skipBreak ==
  LET c == selectedCategoryId IN
  /\ HasData(c) /\ timers[c].status = "BREAK"
  /\ timers' = [ timers EXCEPT ![c] = skipBreakState(@) ]
  /\ failed = "none"
  /\ last' = Happened("skipBreak", c, {}, NoCands)
  /\ UNCHANGED << splitIn, splitOut, pendingCompleted, scenario, rendered, categories, failed, currentTime, now, selectedCategoryId, tasks, sessions, settings,
                  countdownMinutes, pendingSession, nextId >>

extendBreak ==
  LET c == selectedCategoryId
      ms == DefaultBreakMinutes * 60 * 1000
      next == extendBreakState(timers[c], ms) IN
  /\ HasData(c) /\ timers[c].status = "BREAK"
  /\ next.breakRemaining.num <= MaxBreakMinutes * 60 * 1000 * next.breakRemaining.den
  /\ timers' = [ timers EXCEPT ![c] = next ]
  /\ failed = "none"
  /\ last' = Happened("extendBreak", c, {}, NoCands)
  /\ UNCHANGED << splitIn, splitOut, pendingCompleted, scenario, rendered, categories, failed, currentTime, now, selectedCategoryId, tasks, sessions, settings,
                  countdownMinutes, pendingSession, nextId >>

setMode ==
  LET c == selectedCategoryId IN
  IF ~HasData(c) THEN Throws("setMode")
  ELSE
  /\ \E m \in { "FLOW", "COUNTDOWN" } :
       /\ timers' = [ timers EXCEPT ![c] = setModeState(@, m) ]
  /\ failed = "none"
  /\ last' = Happened("setMode", c, {}, NoCands)
  /\ UNCHANGED << splitIn, splitOut, pendingCompleted, scenario, rendered, categories, failed, currentTime, now, selectedCategoryId, tasks, sessions, settings,
                  countdownMinutes, pendingSession, nextId >>

\* the interval timer is installed only while some category is active
hasAnyActive ==
  \E c \in Categories : HasData(c) /\ timers[c].status \in { "RUNNING", "BREAK" }

\* tickTimerState that ends the session when the break runs out
tickTimerState_breakEndsSession(ts, t) ==
  IF tickCompletes(ts, t) \/ tickBreakEnds(ts, t) THEN endSessionState(ts)
  ELSE ts

\* tickTimerState that also ends the chain an IDLE timer holds
tickTimerState_endsIdle(ts, t) ==
  IF tickCompletes(ts, t) \/ ts.status = "IDLE" THEN endSessionState(ts)
  ELSE IF tickBreakEnds(ts, t) THEN handleBreakEndState(ts)
  ELSE ts

\* what one tick at t does to one category's TimerState
tickTimerState(ts, t) ==
  IF tickCompletes(ts, t) THEN endSessionState(ts)
  ELSE IF tickBreakEnds(ts, t) THEN handleBreakEndState(ts)
  ELSE ts

\* the candidate handleEndSessionForCategory hands over for one category
tickCandidate(ts, t, catId) ==
  IF tickCompletes(ts, t) THEN sessionCandidate(ts, t, catId) ELSE NoCandidate

\* setPendingSession is called category by category: the last call stays
RECURSIVE lastCandidate(_, _, _)
lastCandidate(cands, order, pending) ==
  IF order = <<>> THEN pending
  ELSE lastCandidate(cands, Tail(order),
                     IF cands[Head(order)] = NoCandidate THEN pending
                     ELSE cands[Head(order)])

\* Object.keys(categoryData) holds the categories that were not deleted
tick ==
  LET cands == [ c \in Categories |->
                 IF HasData(c) THEN tickCandidate(timers[c], now, c)
                 ELSE NoCandidate ] IN
  /\ hasAnyActive
  /\ timers' = [ c \in Categories |->
                  IF HasData(c) THEN tickTimerState(timers[c], now) ELSE timers[c] ]
  /\ pendingSession' = lastCandidate(cands, CategoryOrder, pendingSession)
  /\ pendingCompleted' = IF cands = NoCands \/ ~scenario.confirm
                         THEN pendingCompleted
                         ELSE timers[pendingSession'.catId].completedTasks
  /\ failed = "none"
  /\ currentTime' = now
  /\ last' = Happened("tick", "all",
                      { c \in Categories :
                          HasData(c) /\ tickCompletes(timers[c], now) }, cands)
  /\ UNCHANGED << splitIn, splitOut, scenario, rendered, categories, failed, now, selectedCategoryId, tasks, sessions, settings,
                  countdownMinutes, nextId >>

addTask ==
  LET c == selectedCategoryId IN
  IF ~HasData(c) THEN scenario.todo /\ Throws("addTask")
  ELSE
  /\ scenario.todo
  /\ Len(tasks[c]) < MaxTasks
  /\ tasks' = [ tasks EXCEPT ![c] = Append(@, [ text |-> "task", isCompleted |-> FALSE ]) ]
  /\ failed = "none"
  /\ last' = Happened("addTask", c, {}, NoCands)
  /\ UNCHANGED << splitIn, splitOut, pendingCompleted, scenario, rendered, categories, failed, currentTime, now, selectedCategoryId, timers, sessions, settings,
                  countdownMinutes, pendingSession, nextId >>

\* toggleTask's updater for the TimerState
toggleTaskState(ts, task, t) ==
  IF ~task.isCompleted /\ ts.status # "IDLE"
  THEN [ ts EXCEPT !.completedTasks =
                     Append(@, [ title |-> task.text, completedAt |-> t ]) ]
  ELSE ts

toggleTask ==
  LET c == selectedCategoryId IN
  \E i \in 1..Len(tasks[c]) :
    LET next == toggleTaskState(timers[c], tasks[c][i], now) IN
    /\ HasData(c)
    /\ Len(next.completedTasks) <= MaxCompleted
    /\ timers' = [ timers EXCEPT ![c] = next ]
    /\ tasks' = [ tasks EXCEPT ![c][i].isCompleted = ~@ ]
    /\ failed = "none"
    /\ last' = Happened("toggleTask", c, {}, NoCands)
    /\ UNCHANGED << splitIn, splitOut, pendingCompleted, scenario, rendered, categories, failed, currentTime, now, selectedCategoryId, sessions, settings,
                    countdownMinutes, pendingSession, nextId >>

\* Save of the confirmation step (onSave), or its Skip (onCancel, which calls
\* handleSaveSessionData with SkippedMeta)
handleSaveSessionData ==
  /\ scenario.confirm
  /\ pendingSession # NoPending
  /\ failed = "none"
  /\ IF ~HasData(pendingSession.catId)
     THEN \* reading currentNotes of the missing entry throws in the handler:
          \* nothing is stored and the candidate stays pending
          /\ last' = Happened("TypeError", pendingSession.catId, {}, NoCands)
          /\ UNCHANGED << sessions, nextId, pendingSession, pendingCompleted >>
     ELSE /\ \E meta \in MetaChoices :
               LET catId == pendingSession.catId
                   base == newSessionBase(pendingSession, nextId + 1, "",
                                          timers[catId].completedTasks,
                                          settings.idleThresholdMinutes, meta)
                   split == splitSessionByMidnight(base, nextId + 2) IN
               /\ split.done
               /\ Len(split.parts) + Len(sessions[catId]) <= MaxSessions
               /\ sessions' = [ sessions EXCEPT ![catId] = split.parts \o @ ]
               /\ nextId' = nextId + 1
                              + (IF Len(split.parts) > 1 THEN Len(split.parts) ELSE 0)
               /\ last' = Happened(IF meta = SkippedMeta THEN "onCancel" ELSE "onSave",
                                   catId, {},
                                   [ NoCands EXCEPT ![catId] = pendingSession ])
          /\ pendingSession' = NoPending
          /\ pendingCompleted' = <<>>
  /\ UNCHANGED << splitIn, splitOut, scenario, rendered, categories, failed, currentTime, now, selectedCategoryId, timers, tasks, settings,
                  countdownMinutes >>

selectCategory ==
  /\ \E c \in scenario.categories : HasData(c) /\ selectedCategoryId' = c
  /\ failed = "none"
  /\ last' = Happened("selectCategory", "none", {}, NoCands)
  /\ UNCHANGED << splitIn, splitOut, pendingCompleted, scenario, rendered, categories, failed, currentTime, now, timers, tasks, sessions, settings, countdownMinutes,
                  pendingSession, nextId >>

\* the minutes input is rendered for an IDLE timer in COUNTDOWN mode
setCountdownMinutes ==
  LET ts == timers[selectedCategoryId] IN
  /\ HasData(selectedCategoryId) /\ ts.status = "IDLE" /\ ts.mode = "COUNTDOWN"
  /\ \E m \in scenario.minutes : countdownMinutes' = m
  /\ failed = "none"
  /\ last' = Happened("setCountdownMinutes", "none", {}, NoCands)
  /\ UNCHANGED << splitIn, splitOut, pendingCompleted, scenario, rendered, categories, failed, currentTime, now, selectedCategoryId, timers, tasks, sessions, settings,
                  pendingSession, nextId >>

\* SettingsModal: flowDivisor = parseInt(input) || 5
updateSettings ==
  /\ \E d \in scenario.divisors :
       settings' = [ settings EXCEPT !.flowDivisor = OrElse(d, DefaultFlowDivisor) ]
  /\ failed = "none"
  /\ last' = Happened("updateSettings", "none", {}, NoCands)
  /\ UNCHANGED << splitIn, splitOut, pendingCompleted, scenario, rendered, categories, failed, currentTime, now, selectedCategoryId, timers, tasks, sessions,
                  countdownMinutes, pendingSession, nextId >>

\* SettingsModal: idleThresholdMinutes = parseInt(input) || 180
updateIdleThreshold ==
  /\ \E m \in scenario.thresholds :
       settings' = [ settings EXCEPT
                       !.idleThresholdMinutes = OrElse(m, DefaultIdleThresholdMinutes) ]
  /\ failed = "none"
  /\ last' = Happened("updateIdleThreshold", "none", {}, NoCands)
  /\ UNCHANGED << splitIn, splitOut, pendingCompleted, scenario, rendered, categories, failed, currentTime, now, selectedCategoryId, timers, tasks, sessions,
                  countdownMinutes, pendingSession, nextId >>

\* Sidebar shows the delete button while more than one category is listed.
\* The entries of a deleted category go out of categoryData: no handler reads
\* them again (HasData), so timers, tasks and sessions keep their last value
\* for its id.
deleteCategory ==
  /\ scenario.delete
  /\ failed = "none"
  /\ Len(categories) > 1
  /\ \E i \in 1..Len(categories) :
       LET id == categories[i] IN
       /\ categories' = SelectSeq(categories, LAMBDA c : c # id)
       /\ selectedCategoryId' = IF selectedCategoryId = id THEN categories[1]
                                ELSE selectedCategoryId
       /\ last' = Happened("deleteCategory", id, {}, NoCands)
  /\ UNCHANGED << splitIn, splitOut, pendingCompleted, scenario, rendered, failed, currentTime, now, timers, tasks,
                  sessions, settings, countdownMinutes, pendingSession, nextId >>

\* updateSessionNote that writes the note into every record of the category
updateSessionNote_wholeCategory ==
  /\ scenario.notes
  /\ failed = "none"
  /\ \E c \in Categories :
       /\ HasData(c)
       /\ sessions[c] # <<>>
       /\ sessions' = [ sessions EXCEPT ![c] =
                          [ j \in 1..Len(sessions[c]) |->
                              [ sessions[c][j] EXCEPT !.notes = "edited" ] ] ]
       /\ last' = Happened("updateSessionNote", c, {}, NoCands)
  /\ UNCHANGED << splitIn, splitOut, pendingCompleted, scenario, rendered, categories, failed, currentTime, now,
                  selectedCategoryId, timers, tasks, settings, countdownMinutes,
                  pendingSession, nextId >>

\* the note of the stored session with the given id is edited in the log
updateSessionNote ==
  /\ scenario.notes
  /\ failed = "none"
  /\ \E c \in Categories :
       /\ HasData(c)
       /\ \E i \in 1..Len(sessions[c]) :
            LET sessionId == sessions[c][i].id IN
            /\ sessions' =
                 [ d \in Categories |->
                     IF HasData(d)
                     THEN [ j \in 1..Len(sessions[d]) |->
                              IF sessions[d][j].id = sessionId
                              THEN [ sessions[d][j] EXCEPT !.notes = "edited" ]
                              ELSE sessions[d][j] ]
                     ELSE sessions[d] ]
            /\ last' = Happened("updateSessionNote", c, {}, NoCands)
  /\ UNCHANGED << splitIn, splitOut, pendingCompleted, scenario, rendered, categories, failed, currentTime, now,
                  selectedCategoryId, timers, tasks, settings, countdownMinutes,
                  pendingSession, nextId >>

Next ==
  \/ Advance
  \/ toggleTimer
  \/ handleEndSession
  \/ resetTimer
  \/ skipBreak
  \/ extendBreak
  \/ setMode
  \/ tick
  \/ addTask
  \/ toggleTask
  \/ handleSaveSessionData
  \/ selectCategory
  \/ setCountdownMinutes
  \/ updateSettings
  \/ updateIdleThreshold
  \/ deleteCategory
  \/ updateSessionNote

Spec == Init /\ [][Next]_vars

\* ------------------------------- the interval callback and its closure
\* The effect that installs the interval runs after a commit whose
\* categoryData changed; the tick it installs reads appState.categoryData of
\* that render.  Between a handler's update and the next run of the effect
\* the installed tick still holds the earlier categoryData.
RaceScenarios ==
  { Scenario({ 0, 5000, 6000 }, { "default-1" }, {}, {}, {}, FALSE, FALSE) }

RaceInit ==
  /\ scenario \in RaceScenarios
  /\ AppInit
  /\ splitIn = PlainSession(0, T0, T0)
  /\ splitOut = NotSplit

\* the effect runs again: the interval is re-installed with a tick that closes
\* over the committed categoryData
effectRuns ==
  /\ failed = "none"
  /\ rendered # timers
  /\ rendered' = timers
  /\ last' = Happened("effect", "all", {}, NoCands)
  /\ UNCHANGED << splitIn, splitOut, pendingCompleted, scenario, categories, failed, currentTime, now,
                  selectedCategoryId, timers, tasks, sessions, settings,
                  countdownMinutes, pendingSession, nextId >>

\* the installed tick: it decides from the categoryData of its closure, and
\* the updaters it queues are applied to the state of the moment (prev)
tickFromClosure ==
  LET completes(c) == HasData(c) /\ tickCompletes(rendered[c], now)
      breakEnds(c) == HasData(c) /\ ~completes(c) /\ tickBreakEnds(rendered[c], now)
      cands == [ c \in Categories |->
                 IF completes(c) THEN sessionCandidate(timers[c], now, c)
                 ELSE NoCandidate ] IN
  /\ failed = "none"
  /\ \E c \in Categories :
       HasData(c) /\ rendered[c].status \in { "RUNNING", "BREAK" }
  /\ timers' = [ c \in Categories |->
                  IF completes(c) THEN endSessionState(timers[c])
                  ELSE IF breakEnds(c) THEN handleBreakEndState(timers[c])
                  ELSE timers[c] ]
  /\ pendingSession' = lastCandidate(cands, CategoryOrder, pendingSession)
  /\ pendingCompleted' = IF cands = NoCands \/ ~scenario.confirm
                         THEN pendingCompleted
                         ELSE timers[pendingSession'.catId].completedTasks
  /\ currentTime' = now
  /\ last' = Happened("tick", "all", { c \in Categories : completes(c) }, cands)
  /\ UNCHANGED << splitIn, splitOut, scenario, rendered, categories, failed, now,
                  selectedCategoryId, tasks, sessions, settings,
                  countdownMinutes, nextId >>

RaceNext ==
  \/ Advance
  \/ toggleTimer
  \/ handleEndSession
  \/ resetTimer
  \/ effectRuns
  \/ tickFromClosure

RaceSpec == RaceInit /\ [][RaceNext]_vars

\* ------------------------------------------------ ticks under fairness
\* The clock runs past the default 25-minute target.  While a timer is RUNNING
\* or in BREAK the interval callback fires every 100 ms, and the clock keeps
\* advancing: weak fairness on tick and on Advance.
LiveScenarios ==
  { Scenario({ 0, 5000, 1600000 }, { "default-1" }, {}, {}, {}, FALSE, FALSE) }

LiveInit ==
  /\ scenario \in LiveScenarios
  /\ AppInit
  /\ splitIn = PlainSession(0, T0, T0)
  /\ splitOut = NotSplit

LiveNext ==
  \/ Advance
  \/ toggleTimer
  \/ resetTimer
  \/ setMode
  \/ tick

LiveSpec == LiveInit /\ [][LiveNext]_vars /\ WF_vars(tick) /\ WF_vars(Advance)

\* ------------------------------- the to-do list with the confirmation
\* Tasks are checked off during a chain and the chain's candidate is then
\* saved or skipped in the confirmation step.
TaskScenarios ==
  { Scenario({ 0, 5000 }, { "default-1" }, {}, {}, {}, TRUE, TRUE) }

TaskInit ==
  /\ scenario \in TaskScenarios
  /\ AppInit
  /\ splitIn = PlainSession(0, T0, T0)
  /\ splitOut = NotSplit

TaskNext ==
  \/ Advance
  \/ toggleTimer
  \/ handleEndSession
  \/ addTask
  \/ toggleTask
  \/ handleSaveSessionData

TaskSpec == TaskInit /\ [][TaskNext]_vars

\* ------------------------------------------- the splitter on its own
\* The records given to splitSessionByMidnight: startTime <= endTime, each at
\* 00:00:00.000, 00:45, 23:30 or the last millisecond of a local day; the
\* focused duration is the whole span or half of it.
SplitDays == 0..MaxSplitLoops
SplitInstants ==
  { DayStartAt(d) + o : d \in SplitDays, o \in { 0, 2700000, 84600000 } }
    \cup { DayStartAt(d + 1) - 1 : d \in SplitDays }

\* a record as handleSaveSessionData builds it after a filled-in confirmation:
\* notes, completed tasks, rating, tags and distractions present
FilledSession(id, from, to) ==
  newSessionBase([ catId |-> "default-2", start |-> from, end |-> to,
                   duration |-> to - from, totalElapsed |-> to - from,
                   sessionStartTime |-> from, mode |-> "COUNTDOWN" ],
                 id, "notes", << [ title |-> "task", completedAt |-> from ] >>,
                 DefaultIdleThresholdMinutes, FilledMeta)

SplitInputs ==
  { [ base EXCEPT !.duration = (base.endTime - base.startTime) \div k ] :
      base \in { PlainSession(1, span[1], span[2]) :
                   span \in { p \in SplitInstants \X SplitInstants : p[1] <= p[2] } }
             \cup { FilledSession(1, span[1], span[2]) :
                   span \in { p \in SplitInstants \X SplitInstants : p[1] <= p[2] } },
      k \in { 1, 2 } }

SplitInit ==
  /\ scenario = Scenario({ 0 }, { "default-1" }, {}, {}, {}, FALSE, FALSE)
  /\ AppInit
  /\ splitIn \in SplitInputs
  /\ splitOut = NotSplit

SplitRun ==
  /\ splitOut = NotSplit
  /\ splitOut' = splitSessionByMidnight(splitIn, splitIn.id + 1)
  /\ UNCHANGED << splitIn, appVars >>

SplitNext == SplitRun

SplitSpec == SplitInit /\ [][SplitNext]_vars

\* =================================================================== claims
\* the focused time of TimerState ts at instant t, written out from its fields
FocusedAt(ts, t) ==
  SumSeq(ts.intervals)
    + (IF ts.status = "RUNNING" THEN t - ts.startTime ELSE 0)
    + ts.accumulatedTime

\* the TimerState fields End-Session and reset leave empty
AllCleared(ts) ==
  /\ ts.status = "IDLE"
  /\ ts.startTime = NULL
  /\ ts.sessionStartTime = NULL
  /\ ts.targetTime = NULL
  /\ BreakIsNull(ts.breakRemaining)
  /\ ts.accumulatedTime = 0
  /\ ts.intervals = <<>>
  /\ ts.completedTasks = <<>>

\* C1: a toggle of a FLOW timer RUNNING since s, at now >= s, gives BREAK,
\* intervals with now - s appended last, breakRemaining = (now - s) /
\* flowDivisor, startTime = now and accumulatedTime = 0; started at t0 and
\* toggled at t0 + 5000 with divisor 5: intervals = [5000], breakRemaining =
\* 1000, startTime = t0 + 5000.
C1_FlowToggleStartsBreak ==
  last.op = "toggleTimer" =>
    LET pre == last.pre[last.cat]
        post == timers[last.cat]
        s == pre.startTime IN
    (pre.status = "RUNNING" /\ pre.mode = "FLOW" /\ s # NULL /\ now >= s) =>
      /\ post.status = "BREAK"
      /\ post.intervals = Append(pre.intervals, now - s)
      /\ BreakEquals(post.breakRemaining, now - s, settings.flowDivisor)
      /\ post.startTime = now
      /\ post.accumulatedTime = 0
      /\ (pre.intervals = <<>> /\ now - s = 5000 /\ settings.flowDivisor = 5) =>
           /\ post.intervals = <<5000>>
           /\ BreakEquals(post.breakRemaining, 1000, 1)
           /\ post.startTime = s + 5000

C1_Witness ==
  /\ last.op = "toggleTimer"
  /\ last.pre[last.cat].status = "RUNNING"
  /\ last.pre[last.cat].mode = "FLOW"
  /\ last.pre[last.cat].startTime = T0
  /\ last.pre[last.cat].intervals = <<>>
  /\ now = T0 + 5000
  /\ settings.flowDivisor = 5
  /\ timers[last.cat].status = "BREAK"
  /\ timers[last.cat].intervals = <<5000>>

\* C2: End-Session, manual or automatic, hands over a candidate if and only
\* if the focused time is > 1000 ms, strictly; a chain started at t0 and
\* ended at t0 + 500 gives no candidate.
C2_CandidateIffOverThreshold ==
  \A c \in last.ended :
    (last.cand[c] # NoCandidate) <=> (FocusedAt(last.pre[c], now) > 1000)

C2_Witness ==
  /\ last.op = "handleEndSession"
  /\ last.pre[last.cat].status = "RUNNING"
  /\ last.pre[last.cat].startTime = T0
  /\ last.pre[last.cat].intervals = <<>>
  /\ now = T0 + 500
  /\ last.cand[last.cat] = NoCandidate
  /\ pendingSession = NoPending

\* C3: after every End-Session, with or without a candidate, the TimerState
\* is IDLE, startTime, sessionStartTime, targetTime and breakRemaining are
\* absent, accumulatedTime is 0, intervals and completedTasks are empty.
C3_EndSessionClearsTimer ==
  \A c \in last.ended : AllCleared(timers[c])

C3_Witness ==
  /\ last.op = "handleEndSession"
  /\ last.pre[last.cat].intervals # <<>>
  /\ last.pre[last.cat].completedTasks # <<>>
  /\ last.pre[last.cat].status = "BREAK"
  /\ AllCleared(timers[last.cat])

\* C4: an emitted candidate has duration = sum(intervals) + (now - startTime
\* if RUNNING, else 0) + accumulatedTime and segmentCount = max(1,
\* len(intervals) + (1 if the current work plus accumulatedTime > 0 else 0));
\* intervals 10000 and 20000 with no further running time: 30000 and 2.
C4_CandidateDurationAndSegments ==
  \A c \in last.ended :
    last.cand[c] # NoCandidate =>
      LET pre == last.pre[c]
          work == IF pre.status = "RUNNING" THEN now - pre.startTime ELSE 0
          extra == IF work + pre.accumulatedTime > 0 THEN 1 ELSE 0 IN
      /\ last.cand[c].duration = SumSeq(pre.intervals) + work + pre.accumulatedTime
      /\ last.cand[c].segmentCount = Max(1, Len(pre.intervals) + extra)
      /\ (pre.intervals = <<10000, 20000>> /\ work + pre.accumulatedTime = 0) =>
           /\ last.cand[c].duration = 30000
           /\ last.cand[c].segmentCount = 2

C4_Witness ==
  /\ last.op = "handleEndSession"
  /\ last.pre[last.cat].intervals = <<10000, 20000>>
  /\ last.pre[last.cat].status = "BREAK"
  /\ last.cand[last.cat] # NoCandidate
  /\ pendingSession.duration = 30000
  /\ pendingSession.segmentCount = 2

\* C5: a tick that finds a RUNNING COUNTDOWN timer with accumulatedTime + (now
\* - startTime) >= targetTime ends the chain as End-Session at the tick's now
\* does: the timer becomes IDLE and the emitted candidate's duration is
\* accumulatedTime + (now - startTime), hence >= targetTime; no tick completes
\* a countdown that is still below its target.
C5_AutoCompleteAsClaimed ==
  last.op = "tick" =>
    \A c \in Categories :
      LET pre == last.pre[c]
          reached == /\ pre.status = "RUNNING"
                     /\ pre.mode = "COUNTDOWN"
                     /\ pre.targetTime # NULL
                     /\ pre.accumulatedTime + (now - pre.startTime) >= pre.targetTime
      IN /\ reached =>
              /\ c \in last.ended
              /\ timers[c].status = "IDLE"
              /\ last.cand[c] # NoCandidate =>
                   /\ last.cand[c].duration = pre.accumulatedTime + (now - pre.startTime)
                   /\ last.cand[c].duration >= pre.targetTime
         /\ c \in last.ended => reached

\* the duration fields of the parts, added up
RECURSIVE SumDurations(_)
SumDurations(parts) ==
  IF parts = <<>> THEN 0 ELSE parts[1].duration + SumDurations(Tail(parts))

\* a and b lie between the same two local midnights
OnOneLocalDay(a, b) ==
  \E d \in 0..LastDay :
    /\ DayStartAt(d) <= a /\ a < DayStartAt(d + 1)
    /\ DayStartAt(d) <= b /\ b < DayStartAt(d + 1)

\* C6: for a record whose startTime and endTime fall on different local days
\* the durations of the parts add up to endTime - startTime exactly; 23:30 to
\* 00:45 gives two parts of 1,800,000 ms and 2,700,000 ms.
C6_SplitDurationsAddUp ==
  (splitOut.done /\ ~OnOneLocalDay(splitIn.startTime, splitIn.endTime)) =>
    /\ SumDurations(splitOut.parts) = splitIn.endTime - splitIn.startTime
    /\ (splitIn.startTime = 84600000 /\ splitIn.endTime = 86400000 + 2700000) =>
         /\ Len(splitOut.parts) = 2
         /\ splitOut.parts[1].duration = 1800000
         /\ splitOut.parts[2].duration = 2700000

\* C7: the parts are ordered earliest-first, contiguous and non-overlapping:
\* the first starts at the original startTime, the last ends at the original
\* endTime, each part's endTime is the next part's startTime.
C7_SplitPartsContiguous ==
  (splitOut.done /\ splitOut.parts # <<>>) =>
    LET parts == splitOut.parts IN
    /\ parts[1].startTime = splitIn.startTime
    /\ parts[Len(parts)].endTime = splitIn.endTime
    /\ \A i \in 1..Len(parts) : parts[i].startTime <= parts[i].endTime
    /\ \A i \in 1..(Len(parts) - 1) : parts[i].endTime = parts[i + 1].startTime

\* C8: for a record whose startTime and endTime fall on the same local day
\* the splitter returns the record itself, alone: same id, startTime, endTime
\* and duration.
C8_SameDayReturnedUnchanged ==
  (splitOut # NotSplit /\ OnOneLocalDay(splitIn.startTime, splitIn.endTime)) =>
    /\ splitOut.done
    /\ splitOut.parts = <<splitIn>>

C8_Witness ==
  /\ splitOut.done
  /\ OnOneLocalDay(splitIn.startTime, splitIn.endTime)
  /\ splitIn.startTime < splitIn.endTime
  /\ splitIn.duration # splitIn.endTime - splitIn.startTime
  /\ splitOut.parts = <<splitIn>>

\* C9: in every reachable TimerState startTime is set if and only if status
\* is RUNNING or BREAK.
C9_StartTimeIffTicking ==
  \A c \in Categories :
    (timers[c].startTime # NULL) <=> (timers[c].status \in { "RUNNING", "BREAK" })

C9_Witness ==
  /\ last.op = "skipBreak"
  /\ last.pre[last.cat].status = "BREAK"
  /\ last.pre[last.cat].startTime # NULL
  /\ timers[last.cat].status = "IDLE"
  /\ timers[last.cat].startTime = NULL

\* C10: in every reachable TimerState sessionStartTime is set if and only if
\* the chain is open: status is not IDLE, or accumulatedTime > 0, or intervals
\* is non-empty.
C10_SessionStartIffChainOpen ==
  \A c \in Categories :
    (timers[c].sessionStartTime # NULL)
      <=> \/ timers[c].status # "IDLE"
          \/ timers[c].accumulatedTime > 0
          \/ timers[c].intervals # <<>>

C10_Witness ==
  /\ last.op = "tick"
  /\ last.pre["default-1"].status = "BREAK"
  /\ timers["default-1"].status = "IDLE"
  /\ timers["default-1"].intervals # <<>>
  /\ timers["default-1"].sessionStartTime = T0
  /\ now > T0

\* C11: in every reachable TimerState whose mode is COUNTDOWN, intervals is
\* empty, also after the mode of a category is switched in mid-chain.
C11_CountdownHasNoIntervals ==
  \A c \in Categories :
    timers[c].mode = "COUNTDOWN" => timers[c].intervals = <<>>

\* C12: in every reachable TimerState breakRemaining is set only if status is
\* BREAK; resume, skip, break expiry, End-Session and reset, which leave
\* BREAK, clear it.
C12_BreakRemainingOnlyInBreak ==
  /\ \A c \in Categories :
       ~BreakIsNull(timers[c].breakRemaining) => timers[c].status = "BREAK"
  /\ \A c \in Categories :
       (last.pre[c].status = "BREAK" /\ timers[c].status # "BREAK") =>
         BreakIsNull(timers[c].breakRemaining)

C12_Witness ==
  /\ last.op = "toggleTimer"
  /\ last.pre[last.cat].status = "BREAK"
  /\ ~BreakIsNull(last.pre[last.cat].breakRemaining)
  /\ timers[last.cat].status = "RUNNING"
  /\ BreakIsNull(timers[last.cat].breakRemaining)

\* C13: accumulatedTime is >= 0 in every reachable TimerState (the readings
\* of the clock never decrease).
C13_AccumulatedTimeNonNegative ==
  \A c \in Categories : timers[c].accumulatedTime >= 0

C13_Witness ==
  /\ last.op = "toggleTimer"
  /\ last.pre[last.cat].status = "RUNNING"
  /\ last.pre[last.cat].mode = "COUNTDOWN"
  /\ last.pre[last.cat].accumulatedTime > 0
  /\ last.pre[last.cat].startTime < now
  /\ timers[last.cat].status = "PAUSED"
  /\ timers[last.cat].accumulatedTime > last.pre[last.cat].accumulatedTime

\* the last operation ended a FLOW work segment of category c
FlowSegmentEnded(c) ==
  /\ last.op = "toggleTimer" /\ last.cat = c
  /\ last.pre[c].status = "RUNNING" /\ last.pre[c].mode = "FLOW"
  /\ Len(timers[c].intervals) = Len(last.pre[c].intervals) + 1

\* the last operation ended the session chain of category c
SessionEnded(c) ==
  c \in last.ended \/ (last.op = "resetTimer" /\ last.cat = c)

\* C14: a non-zero accumulatedTime is reset to 0 exactly when a FLOW segment
\* ends or when the session ends (End-Session or reset); no other transition
\* discards banked accumulatedTime.
C14_BankedTimeDroppedOnlyAtSegmentOrSessionEnd ==
  \A c \in Categories :
    /\ (last.pre[c].accumulatedTime > 0 /\ timers[c].accumulatedTime = 0) =>
         (FlowSegmentEnded(c) \/ SessionEnded(c))
    /\ (FlowSegmentEnded(c) \/ SessionEnded(c)) => timers[c].accumulatedTime = 0

\* C15: once the first start of a chain has set sessionStartTime (to that
\* start's now), it keeps the value through pause, resume, break, break
\* expiry, skip-break and restart, until End-Session or reset clears it.
C15_SessionStartFixedUntilEnd ==
  \A c \in Categories :
    LET pre == last.pre[c]
        post == timers[c] IN
    /\ (pre.sessionStartTime # NULL /\ ~SessionEnded(c)) =>
         post.sessionStartTime = pre.sessionStartTime
    /\ (pre.sessionStartTime = NULL /\ post.sessionStartTime # NULL) =>
         /\ last.op = "toggleTimer" /\ last.cat = c
         /\ post.status = "RUNNING"
         /\ post.sessionStartTime = now

C15_Witness ==
  /\ last.op = "toggleTimer"
  /\ last.pre[last.cat].status = "IDLE"
  /\ last.pre[last.cat].intervals # <<>>
  /\ last.pre[last.cat].sessionStartTime = T0
  /\ now > T0
  /\ timers[last.cat].status = "RUNNING"
  /\ timers[last.cat].startTime = now
  /\ timers[last.cat].sessionStartTime = T0

C17_BreakExpiryKeepsChain ==
  last.op = "tick" =>
    \A c \in Categories :
      LET pre == last.pre[c]
          post == timers[c] IN
      (/\ pre.status = "BREAK"
       /\ ~BreakIsNull(pre.breakRemaining)
       /\ pre.breakRemaining.num - (now - pre.startTime) * pre.breakRemaining.den <= 0) =>
        /\ post.status = "IDLE"
        /\ post.startTime = NULL
        /\ BreakIsNull(post.breakRemaining)
        /\ last.cand[c] = NoCandidate
        /\ c \notin last.ended
        /\ post.intervals = pre.intervals
        /\ post.accumulatedTime = pre.accumulatedTime
        /\ post.sessionStartTime = pre.sessionStartTime
        /\ post.completedTasks = pre.completedTasks
        /\ post.mode = pre.mode
        /\ post.targetTime = pre.targetTime

C17_Witness ==
  /\ last.op = "tick"
  /\ last.pre["default-1"].status = "BREAK"
  /\ last.pre["default-1"].startTime < now
  /\ last.pre["default-1"].completedTasks # <<>>
  /\ timers["default-1"].status = "IDLE"
  /\ timers["default-1"].intervals # <<>>
  /\ timers["default-1"].completedTasks = last.pre["default-1"].completedTasks
  /\ pendingSession = NoPending

\* C18: the periodic tick applied to a category whose TimerState is IDLE
\* changes nothing in that TimerState and emits no candidate session, at any
\* reading of the clock.
C18_TickLeavesIdleAlone ==
  last.op = "tick" =>
    \A c \in Categories :
      last.pre[c].status = "IDLE" =>
        /\ timers[c] = last.pre[c]
        /\ last.cand[c] = NoCandidate
        /\ c \notin last.ended

\* an IDLE timer that holds an open chain is ticked while the other category
\* runs
C18_Witness ==
  /\ last.op = "tick"
  /\ last.pre["default-1"].status = "IDLE"
  /\ last.pre["default-1"].intervals # <<>>
  /\ last.pre["default-1"].sessionStartTime # NULL
  /\ last.pre["default-2"].status = "RUNNING"
  /\ timers["default-1"] = last.pre["default-1"]

\* the records a step has put in front of the session list of category c
Stored(c) ==
  SubSeq(sessions'[c], 1, Len(sessions'[c]) - Len(sessions[c]))

\* C19: a stored session is flagged if and only if its focused duration is
\* strictly greater than idleThresholdMinutes * 60000 ms when the metadata is
\* attached; with a threshold of 1 minute a session of 70,000 ms is flagged
\* and one of 50,000 ms is not.
C19_FlaggedIffOverIdleThreshold ==
  [][ \A c \in Categories :
        sessions'[c] # sessions[c] =>
          \A i \in 1..Len(Stored(c)) :
            /\ Stored(c)[i].isFlagged
                 <=> (pendingSession.duration > settings.idleThresholdMinutes * 60000)
            /\ (settings.idleThresholdMinutes = 1 /\ pendingSession.duration = 70000)
                 => Stored(c)[i].isFlagged
            /\ (settings.idleThresholdMinutes = 1 /\ pendingSession.duration = 50000)
                 => ~Stored(c)[i].isFlagged ]_vars

\* a session of exactly one minute is stored under a threshold of one minute
C19_Witness ==
  /\ last.op \in { "onSave", "onCancel" }
  /\ settings.idleThresholdMinutes = 1
  /\ last.cand[last.cat].duration = 60000
  /\ sessions[last.cat] # <<>>
  /\ \A i \in 1..Len(sessions[last.cat]) : ~sessions[last.cat][i].isFlagged

\* C20: no record is added to a category's session list before the
\* confirmation step for its candidate is saved or skipped; skipping stores
\* the candidate with rating 0, no tags, no distractions and an empty
\* distraction note.
C20_StoredOnlyAtConfirmation ==
  [][ /\ \A c \in Categories :
           Len(sessions'[c]) # Len(sessions[c]) =>
             /\ pendingSession # NoPending
             /\ pendingSession.catId = c
             /\ pendingSession' = NoPending
             /\ last'.op \in { "onSave", "onCancel" }
             /\ Stored(c) \o sessions[c] = sessions'[c]
             /\ \A i \in 1..Len(Stored(c)) :
                  /\ Stored(c)[i].categoryId = c
                  /\ Stored(c)[i].sessionStartTime = pendingSession.sessionStartTime
                  /\ Stored(c)[i].mode = pendingSession.mode
      /\ last'.op = "onCancel" =>
           /\ pendingSession # NoPending
           /\ Stored(pendingSession.catId) # <<>>
           /\ \A i \in 1..Len(Stored(pendingSession.catId)) :
                LET s == Stored(pendingSession.catId)[i] IN
                /\ s.rating = 0
                /\ s.tags = <<>>
                /\ s.distractions = <<>>
                /\ s.distractionNote = "" ]_vars

C20_Witness ==
  /\ last.op = "onCancel"
  /\ last.cand[last.cat] # NoCandidate
  /\ pendingSession = NoPending
  /\ sessions[last.cat] # <<>>
  /\ sessions[last.cat][1].rating = 0
  /\ sessions[last.cat][1].tags = <<>>
  /\ sessions[last.cat][1].sessionStartTime = last.cand[last.cat].sessionStartTime

\* record r after a note update addressed to id
NoteUpdated(r, id, note) == IF r.id = id THEN [ r EXCEPT !.notes = note ] ELSE r

DueAtTick(ts) ==
  \/ /\ ts.status = "RUNNING" /\ ts.mode = "COUNTDOWN"
     /\ ts.targetTime # NULL /\ ts.targetTime # 0
     /\ ts.accumulatedTime + (now - ts.startTime) >= ts.targetTime
  \/ /\ ts.status = "BREAK" /\ ~BreakIsNull(ts.breakRemaining)
     /\ ts.breakRemaining.num - (now - ts.startTime) * ts.breakRemaining.den <= 0

\* C22: toggle, End-Session, reset, skip-break and extend-break change the
\* TimerState of one category and leave the TimerState of every other
\* category unchanged; so do an automatic completion and a break expiry for
\* category c: a tick changes a TimerState only where that category's own
\* countdown or break was due.
C22_OneCategoryPerOperation ==
  /\ last.op \in { "toggleTimer", "handleEndSession", "resetTimer", "skipBreak",
                   "extendBreak" } =>
       \A d \in Categories \ { last.cat } : timers[d] = last.pre[d]
  /\ last.op = "tick" =>
       \A d \in Categories : timers[d] # last.pre[d] => DueAtTick(last.pre[d])

\* a second category is started while the first one runs
C22_Witness ==
  /\ last.op = "toggleTimer"
  /\ last.cat = "default-2"
  /\ last.pre["default-1"].status = "RUNNING"
  /\ last.pre["default-2"].status = "IDLE"
  /\ timers["default-2"].status = "RUNNING"
  /\ timers["default-1"] = last.pre["default-1"]
\* C23: a tick's update to a category is the one its due test selects on the
\* state the update is applied to: a category the tick changes had, at the
\* moment of the update, a countdown that reached its target or a break that
\* ran out, and only the former is ended as a session.  Under RaceSpec the
\* tick reads the categoryData of its closure and a user action may fall
\* between that read and the update.
C23_TickUpdatesMatchItsSnapshot ==
  last.op = "tick" =>
    \A c \in Categories :
      /\ timers[c] # last.pre[c] => DueAtTick(last.pre[c])
      /\ c \in last.ended => tickCompletes(last.pre[c], now)

\* C24: a COUNTDOWN start with no targetTime set, while the minutes field holds
\* an invalid entry (Number("") = 0), takes the default target of 25 minutes.
C24_InvalidMinutesFallBackToDefault ==
  ( /\ last.op = "toggleTimer"
    /\ last.pre[last.cat].status \in { "IDLE", "PAUSED" }
    /\ last.pre[last.cat].mode = "COUNTDOWN"
    /\ last.pre[last.cat].targetTime = NULL
    /\ countdownMinutes = 0 )
  => timers[last.cat].targetTime = DefaultCountdownMinutes * 60 * 1000

\* C25: after a category was deleted no timer operation fails: no handler or
\* state update throws, whichever category was deleted.
C25_OperationsSurviveDeletion ==
  Len(categories) < Len(CategoryOrder) => last.op # "TypeError"

\* C26: every duration a TimerState holds is an integer number of
\* milliseconds; breakRemaining = interval / flowDivisor is one for every
\* interval and divisor.  (accumulatedTime, the intervals entries and
\* targetTime are sums, differences and products of integers.)
C26_DurationsAreIntegers ==
  \A c \in Categories :
    /\ timers[c].accumulatedTime \in Int
    /\ \A i \in 1..Len(timers[c].intervals) : timers[c].intervals[i] \in Int
    /\ timers[c].targetTime \in Int
    /\ BreakIsNull(timers[c].breakRemaining)
         \/ BreakIsInteger(timers[c].breakRemaining)

\* fractions compared by cross-multiplication (denominators are positive)
FracEq(a, b) == a.num * b.den = b.num * a.den
FracLeq(a, b) == a.num * b.den <= b.num * a.den

\* the value the elapsed-time query is to return for ts at the instant t
ElapsedAt(ts, t) ==
  IF ts.status = "RUNNING" THEN Frac(ts.accumulatedTime + (t - ts.startTime), 1)
  ELSE IF ts.status = "BREAK"
  THEN LET left == Frac(ts.breakRemaining.num - (t - ts.startTime) * ts.breakRemaining.den,
                        ts.breakRemaining.den)
       IN IF left.num < 0 THEN Frac(0, 1) ELSE left
  ELSE Frac(ts.accumulatedTime, 1)

\* C27: getElapsed returns accumulatedTime + (now - startTime) when RUNNING,
\* max(0, breakRemaining - (now - startTime)) when BREAK and accumulatedTime
\* otherwise, now being the currentTime it reads; the BREAK value is never
\* below 0, and from one step to the next it does not increase while the
\* timer stays in BREAK unless the step is an extend-break.
C27_ElapsedQuery ==
  /\ [](\A c \in Categories :
         /\ FracEq(getElapsed(timers[c], currentTime), ElapsedAt(timers[c], currentTime))
         /\ timers[c].status = "BREAK" => getElapsed(timers[c], currentTime).num >= 0)
  /\ [][\A c \in Categories :
         ( /\ timers[c].status = "BREAK" /\ timers'[c].status = "BREAK"
           /\ last'.op # "extendBreak" )
         => FracLeq(getElapsed(timers'[c], currentTime'),
                    getElapsed(timers[c], currentTime))]_vars

\* a tick found the break of the selected category partly used up
C27_Witness ==
  LET ts == timers[selectedCategoryId] IN
  /\ last.op = "tick"
  /\ ts.status = "BREAK" /\ currentTime > ts.startTime
  /\ getElapsed(ts, currentTime).num > 0
  /\ ~FracEq(getElapsed(ts, currentTime), ts.breakRemaining)

\* the clock has not reached the last instant of the timeline
ClockStillAdvances == \E t \in scenario.timeline : t > now
UserIdle == last.op \in { "tick", "advance" }

\* C28: with fair ticks and an advancing clock, a timer that is RUNNING in
\* COUNTDOWN mode and is left alone by the user eventually becomes IDLE
\* (the obligation ends if the user acts again), however it got there.
C28_RunningCountdownCompletes ==
  \A c \in Categories :
    []( ( /\ timers[c].status = "RUNNING" /\ timers[c].mode = "COUNTDOWN"
          /\ UserIdle /\ ClockStillAdvances )
        => <>(timers[c].status = "IDLE" \/ ~UserIdle) )

\* C29: a reset, from whatever status, leaves the category IDLE with
\* startTime, sessionStartTime, targetTime and breakRemaining absent,
\* accumulatedTime 0 and intervals and completedTasks empty; it hands over no
\* candidate and leaves the stored sessions as they were.
C29_ResetClearsAndStoresNothing ==
  [][last'.op = "resetTimer" =>
       /\ AllCleared(timers'[last'.cat])
       /\ last'.cand = NoCands
       /\ pendingSession' = pendingSession
       /\ sessions' = sessions]_vars

\* a reset during a break, with a finished segment in the chain
C29_Witness ==
  /\ last.op = "resetTimer"
  /\ last.pre[last.cat].status = "BREAK"
  /\ Len(last.pre[last.cat].intervals) > 0
  /\ AllCleared(timers[last.cat])
  /\ pendingSession = NoPending

\* a record with the four fields a part gets of its own blanked out
WithoutPartFields(r) ==
  [ r EXCEPT !.id = 0, !.startTime = 0, !.endTime = 0, !.duration = 0 ]

\* C30: every part the splitter returns has the record's categoryId, mode,
\* notes, tags, distractions, rating, completedTasks, sessionStartTime and
\* totalElapsed; two parts differ in id, startTime, endTime and duration only.
C30_PartsCarryTheRecord ==
  \A i \in 1..Len(splitOut.parts) :
    LET part == splitOut.parts[i] IN
    /\ part.categoryId = splitIn.categoryId
    /\ part.mode = splitIn.mode
    /\ part.notes = splitIn.notes
    /\ part.tags = splitIn.tags
    /\ part.distractions = splitIn.distractions
    /\ part.rating = splitIn.rating
    /\ part.completedTasks = splitIn.completedTasks
    /\ part.sessionStartTime = splitIn.sessionStartTime
    /\ part.totalElapsed = splitIn.totalElapsed
    /\ \A j \in 1..Len(splitOut.parts) :
         WithoutPartFields(part) = WithoutPartFields(splitOut.parts[j])

\* a filled-in record split into three parts
C30_Witness ==
  /\ splitOut.done /\ Len(splitOut.parts) = 3
  /\ splitIn.notes = "notes" /\ splitIn.tags # <<>> /\ splitIn.completedTasks # <<>>
  /\ splitOut.parts[3].notes = "notes"
  /\ splitOut.parts[1].id # splitOut.parts[3].id
  /\ splitOut.parts[1].duration # splitOut.parts[3].duration

\* C31: for every record with startTime <= endTime the splitter terminates
\* and returns one part for each local day from the day of startTime to the
\* day of endTime, each part beginning and ending on one local day.
C31_SplitTerminatesOnePartPerDay ==
  splitOut # NotSplit =>
    /\ splitOut.done
    /\ Len(splitOut.parts) = dayOf(splitIn.endTime) - dayOf(splitIn.startTime) + 1
    /\ \A i \in 1..Len(splitOut.parts) :
         OnOneLocalDay(splitOut.parts[i].startTime, splitOut.parts[i].endTime)

\* the instants from now on
LaterInstants == { t \in scenario.timeline : t >= now }

\* C32: a chain hands over at most one candidate.  A step that hands over a
\* candidate for c starts from an open chain and closes it; and while the
\* chain of c is closed, End-Session and the tick's completion applied again,
\* now or later, hand over nothing and leave the TimerState as it is.
C32_OneCandidatePerChain ==
  /\ [](\A c \in Categories :
         timers[c].sessionStartTime = NULL =>
           \A t \in LaterInstants :
             /\ sessionCandidate(timers[c], t, c) = NoCandidate
             /\ endSessionState(timers[c]) = timers[c]
             /\ tickCandidate(timers[c], t, c) = NoCandidate
             /\ tickTimerState(timers[c], t) = timers[c])
  /\ [][\A c \in Categories :
         ( /\ last'.op \in { "handleEndSession", "tick" }
           /\ last'.cand[c] # NoCandidate )
         => /\ timers[c].sessionStartTime # NULL
            /\ timers'[c].sessionStartTime = NULL
            /\ AllCleared(timers'[c])]_vars

\* End-Session handed over a candidate, and the clock can still advance
C32_Witness ==
  /\ last.op = "handleEndSession"
  /\ last.cand[last.cat] # NoCandidate
  /\ pendingSession = last.cand[last.cat]
  /\ AllCleared(timers[last.cat])
  /\ \E t \in LaterInstants : t > now

\* C33: a candidate that was handed over is not lost or replaced: every
\* candidate an End-Session or a tick hands over becomes the pending one, and
\* a pending candidate leaves the confirmation step only by being stored in
\* the session list of its own category.
C33_NoCandidateLost ==
  [][ /\ \A c \in Categories :
           ( /\ last'.op \in { "handleEndSession", "tick" }
             /\ last'.cand[c] # NoCandidate )
           => pendingSession' = last'.cand[c]
      /\ ( pendingSession # NoPending /\ pendingSession' # pendingSession )
           => /\ last'.op \in { "onSave", "onCancel" }
              /\ last'.cand[pendingSession.catId] = pendingSession
              /\ Len(sessions'[pendingSession.catId])
                   > Len(sessions[pendingSession.catId]) ]_vars

\* C34: the records stored for a candidate carry, as completedTasks, the
\* task-completion records its chain had accrued when it ended, in order.
C34_StoredTasksAreTheChainsTasks ==
  [][last'.op \in { "onSave", "onCancel" } =>
       \A i \in 1..Len(Stored(last'.cat)) :
         Stored(last'.cat)[i].completedTasks = pendingCompleted]_vars

\* C35: the duration of a candidate is the time the timer spent RUNNING
\* during the chain, stated step by step: the focused total is 0 when the
\* chain opens; while the chain stays open a step adds to it the time that
\* passed if the timer was RUNNING and nothing otherwise, whatever the step
\* is (toggle, break expiry, skip, pause, mode switch); and the candidate
\* handed over has the focused total of that moment as its duration.
C35_DurationIsRunningTime ==
  [][\A c \in Categories :
       /\ (timers[c].sessionStartTime = NULL /\ timers'[c].sessionStartTime # NULL)
            => FocusedAt(timers'[c], now') = 0
       /\ (timers[c].sessionStartTime # NULL /\ timers'[c].sessionStartTime # NULL)
            => FocusedAt(timers'[c], now')
                 = FocusedAt(timers[c], now)
                     + (IF timers[c].status = "RUNNING" THEN now' - now ELSE 0)
       /\ ( /\ last'.op \in { "handleEndSession", "tick" }
            /\ last'.cand[c] # NoCandidate )
            => last'.cand[c].duration = FocusedAt(timers[c], now)]_vars

\* C36: a candidate handed over has start = the chain's sessionStartTime,
\* end = now, totalElapsed = end - start and 0 < duration <= totalElapsed.
C36_CandidateSpansTheChain ==
  last.op \in { "handleEndSession", "tick" } =>
    \A c \in last.ended :
      last.cand[c] # NoCandidate =>
        /\ last.pre[c].sessionStartTime # NULL
        /\ last.cand[c].start = last.pre[c].sessionStartTime
        /\ last.cand[c].sessionStartTime = last.pre[c].sessionStartTime
        /\ last.cand[c].end = now
        /\ last.cand[c].totalElapsed = last.cand[c].end - last.cand[c].start
        /\ 0 < last.cand[c].duration
        /\ last.cand[c].duration <= last.cand[c].totalElapsed

\* a chain with a break in it ends while RUNNING in a later segment
C36_Witness ==
  /\ last.op = "handleEndSession"
  /\ last.cand[last.cat] # NoCandidate
  /\ last.pre[last.cat].status = "RUNNING"
  /\ last.pre[last.cat].sessionStartTime < last.pre[last.cat].startTime
  /\ last.cand[last.cat].start = last.pre[last.cat].sessionStartTime
  /\ last.cand[last.cat].duration < last.cand[last.cat].totalElapsed

\* C37: the durations of the records stored for one confirmed candidate add
\* up to the candidate's focused duration, split at midnight or not.
C37_StoredDurationsAddUpToFocused ==
  [][last'.op \in { "onSave", "onCancel" } =>
       SumDurations(Stored(last'.cat)) = pendingSession.duration]_vars

\* C38: skip-break on a BREAK timer gives IDLE with startTime and
\* breakRemaining cleared and every other field as before (intervals,
\* sessionStartTime and completedTasks among them), so that End-Session
\* right after it still hands over the work banked before the break;
\* extend-break(ms) on a BREAK timer adds exactly ms to breakRemaining and
\* changes no other field.
C38_SkipAndExtendBreakFrame ==
  LET c == last.cat
      pre == last.pre[c]
      ms == DefaultBreakMinutes * 60 * 1000 IN
  /\ last.op = "skipBreak" =>
       /\ pre.status = "BREAK"
       /\ timers[c] = [ pre EXCEPT !.status = "IDLE", !.startTime = NULL,
                                    !.breakRemaining = NoBreak ]
       /\ totalFocused(timers[c], now) = SumSeq(pre.intervals) + pre.accumulatedTime
       /\ SumSeq(pre.intervals) + pre.accumulatedTime > FocusThresholdMs =>
            /\ sessionCandidate(timers[c], now, c) # NoCandidate
            /\ sessionCandidate(timers[c], now, c).duration
                 = SumSeq(pre.intervals) + pre.accumulatedTime
            /\ sessionCandidate(timers[c], now, c).start = pre.sessionStartTime
  /\ last.op = "extendBreak" =>
       /\ pre.status = "BREAK"
       /\ ~BreakIsNull(pre.breakRemaining)
       /\ BreakEquals(timers[c].breakRemaining,
                      pre.breakRemaining.num + ms * pre.breakRemaining.den,
                      pre.breakRemaining.den)
       /\ [ timers[c] EXCEPT !.breakRemaining = NoBreak ]
            = [ pre EXCEPT !.breakRemaining = NoBreak ]

\* a break skipped after 5 s of work: the chain still holds the 5 s
C38_Witness ==
  /\ last.op = "skipBreak"
  /\ last.pre[last.cat].intervals = << 5000 >>
  /\ timers[last.cat].status = "IDLE"
  /\ timers[last.cat].intervals = << 5000 >>
  /\ timers[last.cat].sessionStartTime = last.pre[last.cat].sessionStartTime
  /\ sessionCandidate(timers[last.cat], now, last.cat).duration = 5000

=============================================================================
